---- MODULE Spec2Model ----
(***************************************************************************)
(* Model of rusty-lichess-bot: the move-selection engines (MainEngine with *)
(* minimax + alpha-beta, RandomEngine), the Evaluation algebra and the     *)
(* evaluation strategies.                                                  *)
(*                                                                         *)
(* The chess rules come from the shakmaty crate, which is not part of the  *)
(* repository.  The engine only uses its narrow interface (legal_moves,    *)
(* play_unchecked, turn, fullmoves, is_checkmate, is_stalemate,            *)
(* is_insufficient_material, is_game_over, board().material_side,          *)
(* UciMove::to_move), so a Position is modelled as a node of a finite       *)
(* synthetic game that offers exactly this interface and obeys the          *)
(* library's relations between the queries.                                *)
(***************************************************************************)
EXTENDS Integers, Sequences, FiniteSets, TLC

\* ------------------------------------------------------------------------
\* Bounds of the model
\* ------------------------------------------------------------------------
\* number of distinct boards of the synthetic game
NumBoards == 24
\* number of distinct UCI move tokens (from-square/to-square pairs)
NumUci == 4
\* update_board is only taken while the fullmove counter is below this
MaxFullmoves == 2
\* the Evaluation values added to each other range over -AlgSmall .. AlgSmall,
\* MIN_EVAL, MAX_EVAL and the two values at either end of i32
AlgSmall == 2

\* ------------------------------------------------------------------------
\* Program constants
\* ------------------------------------------------------------------------
MAX_EVAL == 1000000
MIN_EVAL == -1000000
QUEEN_VALUE == 9
ROOK_VALUE == 5
BISHOP_VALUE == 3
KNIGHT_VALUE == 3
PAWN_VALUE == 1
search_depth == 4
\* largest and smallest value of the i32 carried by an Evaluation
I32Max == 2147483647
I32Min == (-2147483647) - 1

Colors == {"White", "Black"}
Other(c) == IF c = "White" THEN "Black" ELSE "White"

Max(a, b) == IF a >= b THEN a ELSE b
Min(a, b) == IF a <= b THEN a ELSE b

\* ------------------------------------------------------------------------
\* Position (shakmaty::Chess) as used by the engines
\* ------------------------------------------------------------------------
\* A Position is [h, turn, fullmoves]: h names the board, turn the side to
\* move, fullmoves the move counter.
Boards == 0 .. (NumBoards - 1)
UciMoves == 1 .. NumUci

\* class of a board: how many legal moves it has and whether the side to
\* move is in check / the material is insufficient
BoardClass(h) == h % 8

\* number of legal moves of the board
NumLegal(h) ==
    CASE BoardClass(h) = 0 -> 0      \* checkmate
      [] BoardClass(h) = 1 -> 0      \* stalemate
      [] BoardClass(h) = 2 -> 2      \* insufficient material, moves left
      [] BoardClass(h) = 3 -> 1
      [] BoardClass(h) = 4 -> 2
      [] BoardClass(h) = 5 -> 3
      [] BoardClass(h) = 6 -> 2
      [] OTHER -> 3

\* the side to move is in check (checkers() is not empty)
InCheck(h) == BoardClass(h) \in {0, 3}

\* Position::is_insufficient_material
is_insufficient_material(p) == BoardClass(p.h) = 2

\* Position::legal_moves: the legal moves in the generator's enumeration
\* order; a move is named by its UCI token
legal_moves(p) ==
    [k \in 1 .. NumLegal(p.h) |-> ((p.h + k - 1) % NumUci) + 1]

\* Position::turn, Position::fullmoves
turn(p) == p.turn
fullmoves(p) == p.fullmoves

\* Position::play_unchecked: the successor position; the side to move
\* alternates and the fullmove counter grows after a move of Black
play_unchecked(p, m) ==
    [h |-> (5 * p.h + 3 * m + (p.h \div 8) + 1) % NumBoards,
     turn |-> Other(p.turn),
     fullmoves |-> IF p.turn = "Black" THEN p.fullmoves + 1 ELSE p.fullmoves]

\* Position::is_checkmate, is_stalemate, is_game_over (shakmaty: outcome is
\* known iff there is no legal move or the material is insufficient)
is_checkmate(p) == InCheck(p.h) /\ Len(legal_moves(p)) = 0
is_stalemate(p) == ~InCheck(p.h) /\ Len(legal_moves(p)) = 0
is_game_over(p) == Len(legal_moves(p)) = 0 \/ is_insufficient_material(p)

\* (mutant: the move is resolved without the legality test)
to_move_unchecked(uci, p) == [ok |-> TRUE, move |-> uci]

\* UciMove::to_move(&position): resolves the token against the position and
\* fails unless the resolved move is legal there
to_move(uci, p) ==
    IF \E k \in 1 .. Len(legal_moves(p)) : legal_moves(p)[k] = uci
    THEN [ok |-> TRUE, move |-> uci]
    ELSE [ok |-> FALSE, move |-> 0]

\* Board::material_side(color): the piece counts by role of one side
\* (a board with insufficient material holds at most one knight a side)
material_side(h, c) ==
    LET j == IF c = "White" THEN (h \div 2) % 5 ELSE (h \div 3) % 5
        k == IF BoardClass(h) = 2 THEN 2 * (j % 2) ELSE j
    IN CASE k = 0 -> [pawn |-> 0, knight |-> 0, bishop |-> 0, rook |-> 0, queen |-> 0]
         [] k = 1 -> [pawn |-> 1, knight |-> 0, bishop |-> 0, rook |-> 0, queen |-> 0]
         [] k = 2 -> [pawn |-> 0, knight |-> 1, bishop |-> 0, rook |-> 0, queen |-> 0]
         [] k = 3 -> [pawn |-> 2, knight |-> 0, bishop |-> 1, rook |-> 1, queen |-> 0]
         [] OTHER -> [pawn |-> 1, knight |-> 0, bishop |-> 0, rook |-> 0, queen |-> 1]

\* ------------------------------------------------------------------------
\* util.rs
\* ------------------------------------------------------------------------
material_for_side(w) ==
    w.pawn * PAWN_VALUE + w.knight * KNIGHT_VALUE + w.bishop * BISHOP_VALUE
        + w.rook * ROOK_VALUE + w.queen * QUEEN_VALUE

util_material_difference(h) ==
    material_for_side(material_side(h, "White"))
        - material_for_side(material_side(h, "Black"))

\* ------------------------------------------------------------------------
\* State
\* ------------------------------------------------------------------------
VARIABLES
    engine_kind,      \* which Engine implementation owns the game: "main" / "random"
    game,             \* MainEngine.game / RandomEngine.game
    color,            \* MainEngine.color / RandomEngine.color
    stats,            \* MainEngine.stats: [current_target_eval, pruning_cutoffs]
    overflow_checks,  \* build profile: TRUE = arithmetic overflow panics, FALSE = wraps
    last,             \* the last Engine call: its name, argument, result and diagnostics
    alg,              \* the last Evaluation addition: [lhs, rhs, out]
    task,             \* one game task (spawn_engine_internal) and its game on the server
    lobby             \* the event loop of main and the challenges on the server

vars == <<engine_kind, game, color, stats, overflow_checks, last, alg, task, lobby>>

\* ------------------------------------------------------------------------
\* Evaluation and impl Add for Evaluation (i32 arithmetic)
\* ------------------------------------------------------------------------
Additive(v) == [tag |-> "Additive", v |-> v]
Absolute(v) == [tag |-> "Absolute", v |-> v]
\* a panic of the arithmetic (overflow with overflow checks enabled)
Panicked == [tag |-> "Panic", v |-> 0]

\* i + j on i32: panics on overflow when the build checks it, wraps otherwise
AddI32(i, j) ==
    IF j > 0 /\ i > I32Max - j
    THEN IF overflow_checks THEN Panicked
         ELSE [tag |-> "Ok", v |-> (i - I32Max - 1) + (j - I32Max - 1)]
    ELSE IF j < 0 /\ i < I32Min - j
    THEN IF overflow_checks THEN Panicked
         ELSE [tag |-> "Ok", v |-> (i + I32Max + 1) + (j + I32Max + 1)]
    ELSE [tag |-> "Ok", v |-> i + j]

\* i32::abs: overflows on i32::MIN (panic, or i32::MIN again when wrapping)
AbsI32(n) ==
    IF n = I32Min
    THEN IF overflow_checks THEN Panicked ELSE [tag |-> "Ok", v |-> I32Min]
    ELSE [tag |-> "Ok", v |-> IF n < 0 THEN 0 - n ELSE n]

\* (mutant: the arithmetic minimum of the two values)
MinByKeyAbs_ArithMin(i, j) == [tag |-> "Ok", v |-> Min(i, j)]

\* std::cmp::min_by_key(i, j, |num| num.abs()): the first argument unless the
\* key of the second is strictly smaller
MinByKeyAbs(i, j) ==
    LET ki == AbsI32(i)
        kj == AbsI32(j)
    IN IF ki.tag = "Panic" \/ kj.tag = "Panic" THEN Panicked
       ELSE IF kj.v < ki.v THEN [tag |-> "Ok", v |-> j] ELSE [tag |-> "Ok", v |-> i]

\* impl Add for Evaluation
Add(self, rhs) ==
    IF self.tag = "Panic" \/ rhs.tag = "Panic" THEN Panicked
    ELSE IF self.tag = "Additive"
    THEN IF rhs.tag = "Additive"
         THEN LET s == AddI32(self.v, rhs.v)
              IN IF s.tag = "Panic" THEN Panicked ELSE Additive(s.v)
         ELSE Absolute(rhs.v)
    ELSE IF rhs.tag = "Additive"
         THEN self
         ELSE LET m == MinByKeyAbs(self.v, rhs.v)
              IN IF m.tag = "Panic" THEN Panicked ELSE Absolute(m.v)

\* Evaluation::to_i32
to_i32(e) == e.v

\* ------------------------------------------------------------------------
\* Strategies
\* ------------------------------------------------------------------------
material_difference(g, bot_color) ==
    LET side == IF bot_color = "White" THEN 1 ELSE -1
    IN Additive(util_material_difference(g.h) * side)

\* (mutant: stalemate not recognised as a draw)
evaluate_draw_InsufficientOnly(g, bot_color) ==
    IF is_insufficient_material(g) THEN Absolute(0) ELSE Additive(0)

evaluate_draw(g, bot_color) ==
    IF is_stalemate(g) \/ is_insufficient_material(g)
    THEN Absolute(0)
    ELSE Additive(0)

\* (mutant: the move counter left out of the mate score)
evaluate_checkmate_NoSpeed(g, bot_color) ==
    IF is_checkmate(g)
    THEN Absolute(IF turn(g) # bot_color THEN MAX_EVAL ELSE MIN_EVAL)
    ELSE Additive(0)

evaluate_checkmate(g, bot_color) ==
    IF is_checkmate(g)
    THEN Absolute(IF turn(g) # bot_color
                  THEN MAX_EVAL - fullmoves(g)
                  ELSE MIN_EVAL + fullmoves(g))
    ELSE Additive(0)

\* MainEngine::evaluate_position: the strategies folded left to right with
\* Add, starting from Additive(0)
evaluate_position(g, bot_color) ==
    LET e0 == Additive(0)
        e1 == Add(e0, material_difference(g, bot_color))
        e2 == Add(e1, evaluate_checkmate(g, bot_color))
        e3 == Add(e2, evaluate_draw(g, bot_color))
    IN to_i32(e3)

\* ------------------------------------------------------------------------
\* StatsSubsystem
\* ------------------------------------------------------------------------
\* StatsSubsystem::new
StatsNew == [current_target_eval |-> 0, pruning_cutoffs |-> <<>>]

\* StatsSubsystem::reset_move_metrics: vec![0u32; search_depth]
reset_move_metrics(st, depth) ==
    [st EXCEPT !.pruning_cutoffs = [i \in 1 .. depth |-> 0]]

\* (mutant: the counter indexed by depth instead of depth - 1)
CountCutoff_NoOffset(w, depth) ==
    IF depth >= 0 /\ depth < Len(w.cutoffs)
    THEN [w EXCEPT !.cutoffs[depth + 1] = @ + 1, !.cuts = Append(@, depth)]
    ELSE [w EXCEPT !.panic = "index", !.cuts = Append(@, depth)]

\* self.stats.pruning_cutoffs[depth as usize - 1] += 1 on the walk state w;
\* an index outside the vector panics
CountCutoff(w, depth) ==
    IF depth - 1 >= 0 /\ depth - 1 < Len(w.cutoffs)
    THEN [w EXCEPT !.cutoffs[depth] = @ + 1, !.cuts = Append(@, depth)]
    ELSE [w EXCEPT !.panic = "index", !.cuts = Append(@, depth)]

\* ------------------------------------------------------------------------
\* MainEngine::deep_move_evaluation
\* ------------------------------------------------------------------------
\* The walk state w threads what the recursion mutates or what is observed of
\* it: cutoffs (self.stats.pruning_cutoffs), panic ("none", "assert",
\* "index"), leaves (the positions handed to evaluate_position, with the
\* value returned), calls (every call of deep_move_evaluation: the position
\* after its move and its depth argument), cuts (the depth of the frame of
\* each pruning cutoff, in the order they happened).

\* (mutant: only checkmate ends the recursion early)
IsLeaf_CheckmateOnly(depth, g) == depth = 0 \/ is_checkmate(g)

\* if depth == 0 || game_state.is_game_over() { return evaluate_position }
IsLeaf(depth, g) == depth = 0 \/ is_game_over(g)

\* the cutoff tests of the move loop: if eval > beta / if eval < alpha
PruneMax(eval, beta) == eval > beta
\* (mutant: the non-strict cutoff)
PruneMin_NonStrict(eval, alpha) == eval <= alpha
PruneMin(eval, alpha) == eval < alpha

RECURSIVE deep_move_evaluation(_, _, _, _, _, _, _)
RECURSIVE MoveLoop(_, _, _, _, _, _, _, _, _)

\* the body of the for loop for the i-th move, r being what the recursive
\* call for that move returned
LoopBody(bot_color, g, moves, i, depth, alpha, beta, deeper_eval, r) ==
    IF r.w.panic # "none"
    THEN [eval |-> deeper_eval, w |-> r.w]
    ELSE IF turn(g) = bot_color
    THEN IF PruneMax(r.eval, beta)
         THEN [eval |-> Max(deeper_eval, r.eval), w |-> CountCutoff(r.w, depth)]
         ELSE MoveLoop(bot_color, g, moves, i + 1, depth,
                       Max(alpha, r.eval), beta, Max(deeper_eval, r.eval), r.w)
    ELSE IF PruneMin(r.eval, alpha)
         THEN [eval |-> Min(deeper_eval, r.eval), w |-> CountCutoff(r.w, depth)]
         ELSE MoveLoop(bot_color, g, moves, i + 1, depth,
                       alpha, Min(beta, r.eval), Min(deeper_eval, r.eval), r.w)

\* the for loop over legal_moves, from its i-th move on
MoveLoop(bot_color, g, moves, i, depth, alpha, beta, deeper_eval, w) ==
    IF i > Len(moves)
    THEN [eval |-> deeper_eval, w |-> w]
    ELSE LoopBody(bot_color, g, moves, i, depth, alpha, beta, deeper_eval,
                  deep_move_evaluation(bot_color, g, moves[i], depth - 1, alpha, beta, w))

\* return self.evaluate_position(&game_state), the leaf being recorded
LeafResult(game_state, e, w) ==
    [eval |-> e, w |-> [w EXCEPT !.leaves = @ \cup {[pos |-> game_state, eval |-> e]}]]

\* deep_move_evaluation after game_state.play_unchecked(*legal_move)
EvaluateAfterMove(bot_color, game_state, depth, alpha, beta, w) ==
    IF IsLeaf(depth, game_state)
    THEN LeafResult(game_state, evaluate_position(game_state, bot_color), w)
    ELSE IF Len(legal_moves(game_state)) = 0
    THEN [eval |-> 0, w |-> [w EXCEPT !.panic = "assert"]]
    ELSE MoveLoop(bot_color, game_state, legal_moves(game_state), 1, depth, alpha, beta,
                  IF turn(game_state) = bot_color THEN MIN_EVAL ELSE MAX_EVAL, w)

deep_move_evaluation(bot_color, game_state0, legal_move, depth, alpha, beta, w) ==
    EvaluateAfterMove(bot_color, play_unchecked(game_state0, legal_move),
                      depth, alpha, beta,
                      [w EXCEPT !.calls = @ \cup
                          {[pos |-> play_unchecked(game_state0, legal_move),
                            depth |-> depth]}])

\* ------------------------------------------------------------------------
\* MainEngine::search
\* ------------------------------------------------------------------------
\* (mutant: the game-over test left out)
SearchReturnsNone_EmptyOnly(g) == Len(legal_moves(g)) = 0

\* if legal_moves.is_empty() || self.game.is_game_over() { return None; }
SearchReturnsNone(g) == Len(legal_moves(g)) = 0 \/ is_game_over(g)

\* (mutant: the window opened at the previous search's evaluation)
RootAlpha_FromStats(st) == st.current_target_eval - 1000

\* let mut alpha = MIN_EVAL - 1000
RootAlpha(st) == MIN_EVAL - 1000

\* The iteration orders a HashMap of n entries can have: the map is keyed by
\* the move and hashed with a per-map random seed, so any order can occur.
\* order[k] is the index in legal_moves() of the k-th entry visited.
HashOrders(n) == {f \in [1 .. n -> 1 .. n] : \A a, b \in 1 .. n : f[a] = f[b] => a = b}

\* (mutant: the root moves searched with the full depth)
RootDepth_Full == search_depth

\* the depth handed to the call for a root move: search_depth - 1
RootDepth == search_depth - 1

RECURSIVE RootLoop(_, _, _, _, _, _, _)

\* *eval = ...; alpha = alpha.max(*eval); then on to the next entry
RootStep(bot_color, g, order, k, alpha, evals, r) ==
    RootLoop(bot_color, g, order, k + 1, Max(alpha, r.eval), Append(evals, r.eval), r.w)

\* legal_moves.iter_mut().for_each(...): evals[k] is the score of the k-th
\* entry visited, alpha the running maximum handed to the next entry
RootLoop(bot_color, g, order, k, alpha, evals, w) ==
    IF k > Len(order) \/ w.panic # "none"
    THEN [evals |-> evals, w |-> w]
    ELSE RootStep(bot_color, g, order, k, alpha, evals,
                  deep_move_evaluation(bot_color, g, legal_moves(g)[order[k]],
                                       RootDepth, alpha, MAX_EVAL, w))

\* (mutant: a stable sort in descending order instead of sort and reverse)
PlaceAfterSort_Descending(evals, k) ==
    1
    + Cardinality({j \in 1 .. Len(evals) : evals[j] > evals[k]})
    + Cardinality({j \in 1 .. Len(evals) : j < k /\ evals[j] = evals[k]})

\* evaluated_moves.sort_by_key(|(_, eval)| *eval) (a stable sort) followed by
\* reverse(): the place, in the final vector, of the k-th entry visited
PlaceAfterSort(evals, k) ==
    Len(evals)
    - Cardinality({j \in 1 .. Len(evals) : evals[j] < evals[k]})
    - Cardinality({j \in 1 .. Len(evals) : j < k /\ evals[j] = evals[k]})

\* *evaluated_moves.first().unwrap(): the entry that ends up first
FirstAfterSort(evals) ==
    CHOOSE k \in 1 .. Len(evals) : PlaceAfterSort(evals, k) = 1

\* (mutant: the place in the map taken for the move itself)
SearchChose_Index(g, order, r, k) ==
    [ret |-> "Some", move |-> order[k],
     stats |-> [current_target_eval |-> r.evals[k], pruning_cutoffs |-> r.w.cutoffs],
     order |-> order, evals |-> r.evals, best_eval |-> r.evals[k],
     panic |-> "none", leaves |-> r.w.leaves, calls |-> r.w.calls, cuts |-> r.w.cuts]

\* what search returns and leaves behind when entry k was chosen
SearchChose(g, order, r, k) ==
    [ret |-> "Some", move |-> legal_moves(g)[order[k]],
     stats |-> [current_target_eval |-> r.evals[k], pruning_cutoffs |-> r.w.cutoffs],
     order |-> order, evals |-> r.evals, best_eval |-> r.evals[k],
     panic |-> "none", leaves |-> r.w.leaves, calls |-> r.w.calls, cuts |-> r.w.cuts]

\* the part of search after the root loop, r being what the loop computed
SearchFinish(g, st, order, r) ==
    IF r.w.panic # "none"
    THEN [ret |-> "Panic", move |-> 0,
          stats |-> [st EXCEPT !.pruning_cutoffs = r.w.cutoffs],
          order |-> order, evals |-> r.evals, best_eval |-> 0,
          panic |-> r.w.panic, leaves |-> r.w.leaves, calls |-> r.w.calls,
          cuts |-> r.w.cuts]
    ELSE SearchChose(g, order, r, FirstAfterSort(r.evals))

\* the walk state at the start of a search: the counters just reset
WalkStart(st) ==
    [cutoffs |-> st.pruning_cutoffs, panic |-> "none", leaves |-> {}, calls |-> {},
     cuts |-> <<>>]

\* The whole of MainEngine::search for the HashMap order `order`: the value
\* returned, the new stats and what the call computed on the way
MainSearch(g, bot_color, st, order) ==
    IF SearchReturnsNone(g)
    THEN [ret |-> "None", move |-> 0, stats |-> st, order |-> <<>>, evals |-> <<>>,
          best_eval |-> 0, panic |-> "none", leaves |-> {}, calls |-> {}, cuts |-> <<>>]
    ELSE SearchFinish(g, st, order,
                      RootLoop(bot_color, g, order, 1, RootAlpha(st), <<>>,
                               WalkStart(reset_move_metrics(st, search_depth))))

\* ------------------------------------------------------------------------
\* Engine operations as actions
\* ------------------------------------------------------------------------
Positions == [h : Boards, turn : Colors, fullmoves : 1 .. MaxFullmoves]

NoCall == [op |-> "new", arg |-> 0, ret |-> "None", move |-> 0, order |-> <<>>,
           evals |-> <<>>, best_eval |-> 0, panic |-> "none", leaves |-> {},
           calls |-> {}, cuts |-> <<>>, stats_in |-> StatsNew]

NoAlg == [lhs |-> Additive(0), rhs |-> Additive(0), out |-> Additive(0)]

\* no request of the task is waiting for the server's answer
NoRequest == [kind |-> "none", uci |-> 0, chats |-> 0]

\* no game task: spawn_engine_internal has not been started
NoTask ==
    [status |-> "off", engine |-> FALSE,
     initial |-> [h |-> 0, turn |-> "White", fullmoves |-> 1],
     bot_color |-> "White", srv |-> <<>>, resigned |-> FALSE, inbox |-> <<>>,
     evt |-> "none", evt_moves |-> <<>>, request |-> NoRequest]

\* no request of the event loop is waiting for the server's answer
NoLobbyRequest == [kind |-> "none", id |-> 0, via |-> "none", ongoing |-> 0]

\* no event loop: main has not connected to the event stream
NoLobby ==
    [status |-> "off", challenges |-> <<>>, stream |-> <<>>,
     waiting_challenges |-> <<>>, accepted |-> <<>>, queued |-> <<>>,
     request |-> NoLobbyRequest, tasks |-> <<>>]

\* MainEngine::new / RandomEngine::new on any initial position and colour
Init ==
    /\ engine_kind \in {"main", "random"}
    /\ game \in [h : Boards, turn : Colors, fullmoves : {1}]
    /\ color \in Colors
    /\ stats = StatsNew
    /\ overflow_checks \in BOOLEAN
    /\ last = NoCall
    /\ alg = NoAlg
    /\ task = NoTask
    /\ lobby = NoLobby

\* Engine::update_board(move_played), the same code in both engines
update_board(uci) ==
    /\ last.ret # "Panic"
    /\ fullmoves(game) < MaxFullmoves
    /\ IF ~to_move(uci, game).ok
       THEN /\ game' = game
            /\ last' = [NoCall EXCEPT !.op = "update_board", !.arg = uci, !.ret = "Err"]
       ELSE /\ game' = play_unchecked(game, to_move(uci, game).move)
            /\ last' = [NoCall EXCEPT !.op = "update_board", !.arg = uci, !.ret = "Ok"]
    /\ UNCHANGED <<engine_kind, color, stats, overflow_checks, alg, task, lobby>>

\* the effect of a search that computed r: self.stats and the value returned
\* (last.stats_in keeps the stats the search started from)
SearchReturn(r) ==
    /\ stats' = r.stats
    /\ last' = [op |-> "search", arg |-> 0, ret |-> r.ret, move |-> r.move,
                order |-> r.order, evals |-> r.evals, best_eval |-> r.best_eval,
                panic |-> r.panic, leaves |-> r.leaves, calls |-> r.calls,
                cuts |-> r.cuts, stats_in |-> stats]

\* MainEngine::search
main_search ==
    /\ engine_kind = "main"
    /\ last.ret # "Panic"
    /\ \E order \in HashOrders(Len(legal_moves(game))) :
          SearchReturn(MainSearch(game, color, stats, order))
    /\ UNCHANGED <<engine_kind, game, color, overflow_checks, alg, task, lobby>>

\* RandomEngine::search: rng().random_range(0..legals.len())
random_search ==
    /\ engine_kind = "random"
    /\ IF Len(legal_moves(game)) = 0
       THEN last' = [NoCall EXCEPT !.op = "search", !.ret = "None"]
       ELSE \E rng \in 0 .. (Len(legal_moves(game)) - 1) :
               last' = [NoCall EXCEPT !.op = "search", !.ret = "Some",
                                      !.move = legal_moves(game)[rng + 1]]
    /\ UNCHANGED <<engine_kind, game, color, stats, overflow_checks, alg, task, lobby>>

Next ==
    \/ \E uci \in UciMoves : update_board(uci)
    \/ main_search
    \/ random_search

Spec == Init /\ [][Next]_vars

\* ------------------------------------------------------------------------
\* The Evaluation algebra on its own: lhs + rhs for sampled operands
\* ------------------------------------------------------------------------
AlgValues ==
    ((0 - AlgSmall) .. AlgSmall)
        \cup {I32Min, I32Min + 1, MIN_EVAL, MAX_EVAL, I32Max - 1, I32Max}

AlgEvaluations == {Additive(v) : v \in AlgValues} \cup {Absolute(v) : v \in AlgValues}

InitAdd ==
    /\ engine_kind = "main"
    /\ game = [h |-> 0, turn |-> "White", fullmoves |-> 1]
    /\ color = "White"
    /\ stats = StatsNew
    /\ overflow_checks \in BOOLEAN
    /\ last = NoCall
    /\ alg = NoAlg
    /\ task = NoTask
    /\ lobby = NoLobby

\* lhs + rhs
add_evaluations ==
    /\ \E lhs \in AlgEvaluations, rhs \in AlgEvaluations :
          alg' = [lhs |-> lhs, rhs |-> rhs, out |-> Add(lhs, rhs)]
    /\ UNCHANGED <<engine_kind, game, color, stats, overflow_checks, last, task, lobby>>

NextAdd == add_evaluations

SpecAdd == InitAdd /\ [][NextAdd]_vars

\* ------------------------------------------------------------------------
\* The game task: spawn_engine_internal, log_move, bot_play_move (main.rs)
\* and the game on the server that feeds its event stream
\* ------------------------------------------------------------------------
\* the longest move list the opponent extends, the most events in flight
MaxGameMoves == 3
MaxInbox == 2

\* Engine::is_my_turn: MainEngine also asks for a game that is not over
is_my_turn(kind, g, c) ==
    IF kind = "main" THEN ~is_game_over(g) /\ turn(g) = c ELSE turn(g) = c

\* the position after the moves of a move list, played from position p
RECURSIVE Replay(_, _)
Replay(p, moves) ==
    IF moves = <<>> THEN p
    ELSE Replay(play_unchecked(p, to_move(Head(moves), p).move), Tail(moves))

\* the game on the server: its position, and whether it has ended
SrvPos == Replay(task.initial, task.srv)
SrvOver == task.resigned \/ is_game_over(SrvPos)

\* the gameState event the server sends for a move list: status started
\* while the game goes on, another status (mate, draw, ...) once it ended
GameStateEvent(moves) ==
    [kind |-> "GameState",
     status |-> IF is_game_over(Replay(task.initial, moves)) THEN "Ended" ELSE "Started",
     moves |-> moves]

\* the games a task can be started for: the start position or the position
\* of initial_fen, with a game that is not over
StartPositions ==
    {p \in [h : Boards, turn : Colors, fullmoves : {1}] : ~is_game_over(p)}

InitGame ==
    /\ engine_kind = "random"
    /\ task \in [status : {"waiting"}, engine : {FALSE}, initial : StartPositions,
                 bot_color : Colors, srv : {<<>>}, resigned : {FALSE},
                 inbox : {<<>>}, evt : {"none"}, evt_moves : {<<>>},
                 request : {NoRequest}]
    /\ game = task.initial
    /\ color = "White"
    /\ stats = StatsNew
    /\ overflow_checks = FALSE
    /\ last = NoCall
    /\ alg = NoAlg
    /\ lobby = NoLobby

\* a move is played on the server: by either side before the task has
\* connected (a game already in progress), by the opponent afterwards;
\* once connected the task is sent a gameState event with the new list
server_move(uci) ==
    /\ task.status \in {"waiting", "running"}
    /\ ~SrvOver
    /\ Len(task.srv) < MaxGameMoves
    /\ to_move(uci, SrvPos).ok
    /\ IF task.status = "waiting"
       THEN task' = [task EXCEPT !.srv = Append(@, uci)]
       ELSE /\ turn(SrvPos) # task.bot_color
            /\ Len(task.inbox) < MaxInbox
            /\ task' = [task EXCEPT !.srv = Append(@, uci),
                            !.inbox = Append(@, GameStateEvent(Append(task.srv, uci)))]
    /\ UNCHANGED <<engine_kind, game, color, stats, overflow_checks, last, alg, lobby>>

\* the server sends a gameState event without a new move (a draw offer, a
\* takeback proposal): status started and the move list as it stands
server_repeat_state ==
    /\ task.status = "running"
    /\ ~SrvOver
    /\ Len(task.inbox) < MaxInbox
    /\ task' = [task EXCEPT !.inbox = Append(@, GameStateEvent(task.srv))]
    /\ UNCHANGED <<engine_kind, game, color, stats, overflow_checks, last, alg, lobby>>

\* client.bot_game_connect: the stream opens with the gameFull event
bot_game_connect ==
    /\ task.status = "waiting"
    /\ ~SrvOver
    /\ task' = [task EXCEPT !.status = "running",
                    !.inbox = <<[kind |-> "GameFull", status |-> "Started",
                                 moves |-> task.srv]>>]
    /\ UNCHANGED <<engine_kind, game, color, stats, overflow_checks, last, alg, lobby>>

\* the task after the event at the head of the stream: the event is taken
\* off the stream and the task goes on or ends with the given status; only
\* the GameFull handler sets the engine
Processed(status) ==
    [task EXCEPT !.status = status, !.inbox = Tail(task.inbox),
                 !.engine = @ \/ Head(task.inbox).kind = "GameFull",
                 !.evt = IF Head(task.inbox).kind = "GameFull" THEN "GameFull"
                         ELSE Head(task.inbox).status,
                 !.evt_moves = Head(task.inbox).moves]

\* the server takes a move of the bot only while the game goes on, the bot
\* is to move and the move is legal
ServerAccepts(uci) ==
    ~SrvOver /\ turn(SrvPos) = task.bot_color /\ to_move(uci, SrvPos).ok

\* the requests the task waits on: client.bot_play_move(uci), and those of
\* abort_game_cleanly_after_error: client.bot_chat_write with `chats`
\* messages still to write (the chat message if there is one, then the FEN),
\* then client.bot_game_resign
MoveRequest(uci) == [kind |-> "move", uci |-> uci, chats |-> 0]
ChatRequest(n) == [kind |-> "chat", uci |-> 0, chats |-> n]
ResignRequest == [kind |-> "resign", uci |-> 0, chats |-> 0]

\* bot_play_move with the engine's position g: RandomEngine::search gives
\* any legal move of g and the task sends it and waits for the answer;
\* without a move abort_game_cleanly_after_error starts with its chat message
bot_play_move(g) ==
    IF Len(legal_moves(g)) = 0
    THEN /\ last' = [NoCall EXCEPT !.op = "search", !.ret = "None"]
         /\ task' = [Processed("running") EXCEPT !.request = ChatRequest(2)]
    ELSE \E rng \in 0 .. (Len(legal_moves(g)) - 1) :
            /\ last' = [NoCall EXCEPT !.op = "search", !.ret = "Some",
                                      !.move = legal_moves(g)[rng + 1]]
            /\ task' = [Processed("running") EXCEPT
                            !.request = MoveRequest(legal_moves(g)[rng + 1])]

\* client.bot_play_move(uci) answered Ok: the move joins the server's list
\* and comes back as a gameState event
bot_play_move_answered ==
    /\ task.status = "running"
    /\ task.request.kind = "move"
    /\ ServerAccepts(task.request.uci)
    /\ task' = [task EXCEPT
                    !.request = NoRequest,
                    !.srv = Append(@, task.request.uci),
                    !.inbox = Append(@, GameStateEvent(
                                           Append(task.srv, task.request.uci)))]
    /\ UNCHANGED <<engine_kind, game, color, stats, overflow_checks, last, alg, lobby>>

\* client.bot_play_move(uci) answered Err (the server refuses the move, or
\* the request fails): unwrap_or_else panics
bot_play_move_failed ==
    /\ task.status = "running"
    /\ task.request.kind = "move"
    /\ task' = [task EXCEPT !.request = NoRequest, !.status = "panic_send"]
    /\ UNCHANGED <<engine_kind, game, color, stats, overflow_checks, last, alg, lobby>>

\* client.bot_chat_write answered Ok: the next message is written, and
\* after the last one client.bot_game_resign is sent
bot_chat_write_answered ==
    /\ task.status = "running"
    /\ task.request.kind = "chat"
    /\ task' = [task EXCEPT !.request = IF task.request.chats > 1
                                        THEN ChatRequest(task.request.chats - 1)
                                        ELSE ResignRequest]
    /\ UNCHANGED <<engine_kind, game, color, stats, overflow_checks, last, alg, lobby>>

\* client.bot_chat_write answered Err: the `?` returns from
\* abort_game_cleanly_after_error and the task ends without resigning
bot_chat_write_failed ==
    /\ task.status = "running"
    /\ task.request.kind = "chat"
    /\ task' = [task EXCEPT !.request = NoRequest, !.status = "bailed"]
    /\ UNCHANGED <<engine_kind, game, color, stats, overflow_checks, last, alg, lobby>>

\* client.bot_game_resign answered Ok: the game ends on the server and
\* abort_game_cleanly_after_error bails
bot_game_resign_answered ==
    /\ task.status = "running"
    /\ task.request.kind = "resign"
    /\ ~SrvOver
    /\ task' = [task EXCEPT !.request = NoRequest, !.status = "bailed",
                    !.resigned = TRUE]
    /\ UNCHANGED <<engine_kind, game, color, stats, overflow_checks, last, alg, lobby>>

\* client.bot_game_resign answered Err (the game is over already, or the
\* request fails): the `?` returns and the task ends
bot_game_resign_failed ==
    /\ task.status = "running"
    /\ task.request.kind = "resign"
    /\ task' = [task EXCEPT !.request = NoRequest, !.status = "bailed"]
    /\ UNCHANGED <<engine_kind, game, color, stats, overflow_checks, last, alg, lobby>>

\* game_state.moves.rsplit(" ").next(): the last token of the move list,
\* the empty string (0) for an empty list
last_move(moves) == IF moves = <<>> THEN 0 ELSE moves[Len(moves)]

\* if engine.is_my_turn() { bot_play_move(..) } with the engine's position g
\* reached by applying the move `applied` last (0: no move was applied)
PlayIfMyTurn(g, c, applied) ==
    /\ game' = g
    /\ IF is_my_turn(engine_kind, g, c)
       THEN bot_play_move(g)
       ELSE /\ task' = Processed("running")
            /\ last' = IF applied = 0 THEN NoCall
                       ELSE [NoCall EXCEPT !.op = "update_board", !.arg = applied,
                                           !.ret = "Ok"]

\* for uci_move in uci_moves { engine.update_board(uci_move).await? }: the
\* position reached, and whether every move was taken
RECURSIVE CatchUp(_, _)
CatchUp(g, moves) ==
    IF moves = <<>> THEN [ok |-> TRUE, game |-> g, arg |-> 0]
    ELSE IF ~to_move(Head(moves), g).ok
    THEN [ok |-> FALSE, game |-> g, arg |-> Head(moves)]
    ELSE CatchUp(play_unchecked(g, to_move(Head(moves), g).move), Tail(moves))

\* the rest of the GameFull handler once the moves are caught up
AfterCatchUp(c, bot_color) ==
    IF ~c.ok
    THEN /\ game' = c.game
         /\ task' = Processed("err_update")
         /\ last' = [NoCall EXCEPT !.op = "update_board", !.arg = c.arg,
                                   !.ret = "Err"]
    ELSE PlayIfMyTurn(c.game, bot_color, last_move(Head(task.inbox).moves))

\* client.bot_game_connect answered Err: expect panics
bot_game_connect_failed ==
    /\ task.status = "waiting"
    /\ task' = [task EXCEPT !.status = "panic_connect"]
    /\ UNCHANGED <<engine_kind, game, color, stats, overflow_checks, last, alg, lobby>>

\* BoardState::GameFull: a new engine on the initial position, the moves
\* already played applied one by one, then a move if it is the bot's turn
handle_game_full ==
    /\ task.status = "running"
    /\ task.request.kind = "none"
    /\ task.inbox # <<>>
    /\ Head(task.inbox).kind = "GameFull"
    /\ color' = task.bot_color
    /\ AfterCatchUp(CatchUp(task.initial, Head(task.inbox).moves), task.bot_color)
    /\ UNCHANGED <<engine_kind, stats, overflow_checks, alg, lobby>>

\* Board::piece_at(from) is Some: a legal move starts on an occupied square,
\* another token may or may not
piece_at_origin(g, uci) == to_move(uci, g).ok \/ (g.h + uci) % 2 = 0

\* log_move goes through: the token has its four characters and its origin
\* square holds a piece (the slices and the expect panic otherwise)
log_move_ok(uci, g) == uci # 0 /\ piece_at_origin(g, uci)

\* BoardState::GameState with GameStatus::Started: the last move of the
\* list is logged and applied, then a move is played if it is the bot's
\* turn; without an engine the game is resigned
handle_game_state_started ==
    /\ task.status = "running"
    /\ task.request.kind = "none"
    /\ task.inbox # <<>>
    /\ Head(task.inbox).kind = "GameState"
    /\ Head(task.inbox).status = "Started"
    /\ IF ~task.engine
       THEN /\ task' = [Processed("running") EXCEPT !.request = ChatRequest(1)]
            /\ UNCHANGED <<game, last>>
       ELSE IF ~log_move_ok(last_move(Head(task.inbox).moves), game)
       THEN /\ task' = Processed("panic_log")
            /\ UNCHANGED <<game, last>>
       ELSE IF ~to_move(last_move(Head(task.inbox).moves), game).ok
       THEN /\ task' = Processed("err_update")
            /\ game' = game
            /\ last' = [NoCall EXCEPT !.op = "update_board", !.ret = "Err",
                                      !.arg = last_move(Head(task.inbox).moves)]
       ELSE PlayIfMyTurn(play_unchecked(game,
                             to_move(last_move(Head(task.inbox).moves), game).move),
                         color, last_move(Head(task.inbox).moves))
    /\ UNCHANGED <<engine_kind, color, stats, overflow_checks, alg, lobby>>

\* BoardState::GameState with another status: only logged
handle_game_state_other ==
    /\ task.status = "running"
    /\ task.request.kind = "none"
    /\ task.inbox # <<>>
    /\ Head(task.inbox).kind = "GameState"
    /\ Head(task.inbox).status # "Started"
    /\ task' = Processed("running")
    /\ UNCHANGED <<engine_kind, game, color, stats, overflow_checks, last, alg, lobby>>

NextGame ==
    \/ \E uci \in UciMoves : server_move(uci)
    \/ server_repeat_state
    \/ bot_game_connect
    \/ bot_game_connect_failed
    \/ handle_game_full
    \/ bot_play_move_answered
    \/ bot_play_move_failed
    \/ bot_chat_write_answered
    \/ bot_chat_write_failed
    \/ bot_game_resign_answered
    \/ bot_game_resign_failed
    \/ handle_game_state_started
    \/ handle_game_state_other

SpecGame == InitGame /\ [][NextGame]_vars

\* ------------------------------------------------------------------------
\* The event loop of main (main.rs) and the challenges on the server
\* ------------------------------------------------------------------------
MAX_SIMULTANEOUS_GAMES == 3
\* how many challenges are made, the most events in flight on the stream
MaxChallenges == 5
MaxStream == 2

ChallengeIds == 1 .. MaxChallenges

\* ChallengeStatus of a challenge when its Challenge event is sent
ArrivalStatuses == {"created", "offline"}

\* client.games_ongoing(50): the games of the bot the server holds as ongoing
\* at the moment it answers the request
games_ongoing == {c \in ChallengeIds : lobby.challenges[c] = "game"}

\* the requests the loop waits on: client.games_ongoing(50) while it handles
\* the Challenge event of challenge id, client.challenge_accept(id)
OngoingRequest(id) == [kind |-> "games_ongoing", id |-> id, via |-> "arrival", ongoing |-> 0]
AcceptRequest(id, via, n) == [kind |-> "challenge_accept", id |-> id, via |-> via, ongoing |-> n]

InitLobby ==
    /\ engine_kind = "random"
    /\ game = [h |-> 0, turn |-> "White", fullmoves |-> 1]
    /\ color = "White"
    /\ stats = StatsNew
    /\ overflow_checks = FALSE
    /\ last = NoCall
    /\ alg = NoAlg
    /\ task = NoTask
    /\ lobby = [status |-> "running", challenges |-> [c \in ChallengeIds |-> "none"],
                stream |-> <<>>, waiting_challenges |-> <<>>, accepted |-> <<>>,
                queued |-> <<>>, request |-> NoLobbyRequest,
                tasks |-> [c \in ChallengeIds |-> "none"]]

\* a user challenges the bot: the server sends a Challenge event that
\* carries the status of the challenge
challenge_created(c, st) ==
    /\ lobby.status = "running"
    /\ lobby.challenges[c] = "none"
    /\ \A d \in ChallengeIds : d < c => lobby.challenges[d] # "none"
    /\ Len(lobby.stream) < MaxStream
    /\ lobby' = [lobby EXCEPT !.challenges[c] = st,
                     !.stream = Append(@, [kind |-> "Challenge", id |-> c,
                                           status |-> st])]
    /\ UNCHANGED <<engine_kind, game, color, stats, overflow_checks, last, alg, task>>

\* the challenger withdraws a challenge that has not been accepted: the
\* server sends a ChallengeCanceled event
challenge_withdrawn(c) ==
    /\ lobby.status = "running"
    /\ lobby.challenges[c] = "created"
    /\ Len(lobby.stream) < MaxStream
    /\ lobby' = [lobby EXCEPT !.challenges[c] = "canceled",
                     !.stream = Append(@, [kind |-> "ChallengeCanceled", id |-> c,
                                           status |-> "canceled"])]
    /\ UNCHANGED <<engine_kind, game, color, stats, overflow_checks, last, alg, task>>

\* a game of the bot ends on the server: the server sends a GameFinish event
game_ends(c) ==
    /\ lobby.status = "running"
    /\ lobby.challenges[c] = "game"
    /\ Len(lobby.stream) < MaxStream
    /\ lobby' = [lobby EXCEPT !.challenges[c] = "finished",
                     !.stream = Append(@, [kind |-> "GameFinish", id |-> c,
                                           status |-> "finished"])]
    /\ UNCHANGED <<engine_kind, game, color, stats, overflow_checks, last, alg, task>>

\* the loop with the event at the head of the stream taken
Popped == [lobby EXCEPT !.stream = Tail(@)]

\* Event::Challenge: a challenge whose status is not Created is skipped; for
\* the others the loop asks for the ongoing games and waits for the answer
handle_challenge ==
    /\ lobby.status = "running"
    /\ lobby.request.kind = "none"
    /\ lobby.stream # <<>>
    /\ Head(lobby.stream).kind = "Challenge"
    /\ lobby' = IF Head(lobby.stream).status # "created"
                THEN Popped
                ELSE [Popped EXCEPT !.request = OngoingRequest(Head(lobby.stream).id)]
    /\ UNCHANGED <<engine_kind, game, color, stats, overflow_checks, last, alg, task>>

\* the answer to client.games_ongoing(50): with fewer than
\* MAX_SIMULTANEOUS_GAMES games the loop sends challenge_accept and waits,
\* otherwise the challenge goes to the front of waiting_challenges
games_ongoing_answered ==
    /\ lobby.status = "running"
    /\ lobby.request.kind = "games_ongoing"
    /\ lobby' = IF Cardinality(games_ongoing) < MAX_SIMULTANEOUS_GAMES
                THEN [lobby EXCEPT !.request =
                         AcceptRequest(lobby.request.id, "arrival",
                                       Cardinality(games_ongoing))]
                ELSE [lobby EXCEPT
                         !.request = NoLobbyRequest,
                         !.waiting_challenges = <<lobby.request.id>> \o @,
                         !.queued = Append(@, lobby.request.id)]
    /\ UNCHANGED <<engine_kind, game, color, stats, overflow_checks, last, alg, task>>

\* client.games_ongoing(50).await? with an Err: main returns
games_ongoing_failed ==
    /\ lobby.status = "running"
    /\ lobby.request.kind = "games_ongoing"
    /\ lobby' = [lobby EXCEPT !.request = NoLobbyRequest, !.status = "err"]
    /\ UNCHANGED <<engine_kind, game, color, stats, overflow_checks, last, alg, task>>

\* client.challenge_accept(id) answered Ok: the server turns an open
\* challenge into a game and sends GameStart
challenge_accept_answered ==
    /\ lobby.status = "running"
    /\ lobby.request.kind = "challenge_accept"
    /\ lobby.challenges[lobby.request.id] = "created"
    /\ lobby' = [lobby EXCEPT
                     !.request = NoLobbyRequest,
                     !.challenges[lobby.request.id] = "game",
                     !.stream = Append(@, [kind |-> "GameStart",
                                           id |-> lobby.request.id,
                                           status |-> "accepted"]),
                     !.accepted = Append(@, [id |-> lobby.request.id,
                                             via |-> lobby.request.via,
                                             ongoing |-> lobby.request.ongoing])]
    /\ UNCHANGED <<engine_kind, game, color, stats, overflow_checks, last, alg, task>>

\* client.challenge_accept(id) answered Err (the challenge is no longer
\* open, or the request fails): expect panics
challenge_accept_failed ==
    /\ lobby.status = "running"
    /\ lobby.request.kind = "challenge_accept"
    /\ lobby' = [lobby EXCEPT !.request = NoLobbyRequest, !.status = "panic"]
    /\ UNCHANGED <<engine_kind, game, color, stats, overflow_checks, last, alg, task>>

\* Event::GameStart: tokio::spawn(spawn_engine(..)) starts the game's task
handle_game_start ==
    /\ lobby.status = "running"
    /\ lobby.request.kind = "none"
    /\ lobby.stream # <<>>
    /\ Head(lobby.stream).kind = "GameStart"
    /\ lobby' = [Popped EXCEPT !.tasks[Head(lobby.stream).id] = "spawned"]
    /\ UNCHANGED <<engine_kind, game, color, stats, overflow_checks, last, alg, task>>

\* a spawned task opens its game stream: client.bot_game_connect(id)
game_task_connects(c) ==
    /\ lobby.tasks[c] = "spawned"
    /\ lobby' = [lobby EXCEPT !.tasks[c] = "connected"]
    /\ UNCHANGED <<engine_kind, game, color, stats, overflow_checks, last, alg, task>>

\* Event::GameFinish: waiting_challenges.pop(), if there is one, is sent to
\* challenge_accept and the loop waits for the answer
handle_game_finish ==
    /\ lobby.status = "running"
    /\ lobby.request.kind = "none"
    /\ lobby.stream # <<>>
    /\ Head(lobby.stream).kind = "GameFinish"
    /\ lobby' = IF lobby.waiting_challenges = <<>>
                THEN Popped
                ELSE [Popped EXCEPT
                         !.waiting_challenges = SubSeq(@, 1, Len(@) - 1),
                         !.request = AcceptRequest(
                             lobby.waiting_challenges[Len(lobby.waiting_challenges)],
                             "queue", 0)]
    /\ UNCHANGED <<engine_kind, game, color, stats, overflow_checks, last, alg, task>>

\* Event::ChallengeCanceled: waiting_challenges.retain(|c| c != &ch.id)
handle_challenge_canceled ==
    /\ lobby.status = "running"
    /\ lobby.request.kind = "none"
    /\ lobby.stream # <<>>
    /\ Head(lobby.stream).kind = "ChallengeCanceled"
    /\ lobby' = [Popped EXCEPT !.waiting_challenges =
                    SelectSeq(@, LAMBDA c : c # Head(lobby.stream).id)]
    /\ UNCHANGED <<engine_kind, game, color, stats, overflow_checks, last, alg, task>>

NextLobby ==
    \/ \E c \in ChallengeIds, st \in ArrivalStatuses : challenge_created(c, st)
    \/ \E c \in ChallengeIds : challenge_withdrawn(c)
    \/ \E c \in ChallengeIds : game_ends(c)
    \/ handle_challenge
    \/ games_ongoing_answered
    \/ games_ongoing_failed
    \/ challenge_accept_answered
    \/ challenge_accept_failed
    \/ handle_game_start
    \/ \E c \in ChallengeIds : game_task_connects(c)
    \/ handle_game_finish
    \/ handle_challenge_canceled

SpecLobby == InitLobby /\ [][NextLobby]_vars

\* ------------------------------------------------------------------------
\* Reference: unpruned minimax of the same tree to the same depth
\* ------------------------------------------------------------------------
SetMax(S) == CHOOSE v \in S : \A u \in S : u <= v
SetMin(S) == CHOOSE v \in S : \A u \in S : v <= u
Range(f) == {f[i] : i \in DOMAIN f}

RECURSIVE Minimax(_, _, _)
\* the value of position g for bot_color with `depth` plies left, every move
\* of every node visited
Minimax(bot_color, g, depth) ==
    IF depth = 0 \/ is_game_over(g)
    THEN evaluate_position(g, bot_color)
    ELSE IF turn(g) = bot_color
    THEN SetMax({Minimax(bot_color, play_unchecked(g, m), depth - 1) : m \in Range(legal_moves(g))})
    ELSE SetMin({Minimax(bot_color, play_unchecked(g, m), depth - 1) : m \in Range(legal_moves(g))})

\* the unpruned score of root move m of position g
RootScore(bot_color, g, m) == Minimax(bot_color, play_unchecked(g, m), search_depth - 1)

\* the best unpruned root score of position g
BestRootScore(bot_color, g) ==
    SetMax({RootScore(bot_color, g, m) : m \in Range(legal_moves(g))})

\* the state right after a MainEngine::search that returned a move
SearchedMain == engine_kind = "main" /\ last.op = "search" /\ last.ret = "Some"

\* the number of cutoffs counted by the last search
RECURSIVE SeqSum(_)
SeqSum(q) == IF Len(q) = 0 THEN 0 ELSE Head(q) + SeqSum(Tail(q))

\* ------------------------------------------------------------------------
\* Claims
\* ------------------------------------------------------------------------

\* the score and the move of the last search attain the unpruned score best
ChoiceAttains(best) ==
    /\ last.best_eval = best
    /\ RootScore(color, game, last.move) = best

\* C1: on every position that is not game-over, the pruning search chooses a
\* move whose score is the maximum root score of the unpruned minimax of the
\* same tree, and the chosen move attains that maximum in the unpruned
\* traversal.
C1_AlphaBetaEquivalence ==
    (engine_kind = "main" /\ last.op = "search" /\ ~is_game_over(game)) =>
        /\ last.ret = "Some"
        /\ ChoiceAttains(BestRootScore(color, game))

\* a search that pruned, and in which pruning changed the score of a root
\* move that is not the best one
C1_Witness ==
    /\ SearchedMain
    /\ SeqSum(stats.pruning_cutoffs) > 0
    /\ \E k \in 1 .. Len(last.evals) :
          last.evals[k] # RootScore(color, game, legal_moves(game)[last.order[k]])

\* C2 (as stated): for every position with at least one legal move, search of
\* either engine returns a move, and the move is legal in the position.
C2_Original ==
    (last.op = "search" /\ Len(legal_moves(game)) >= 1) =>
        /\ last.ret = "Some"
        /\ last.move \in Range(legal_moves(game))

\* C2 (amended): for every position with at least one legal move,
\* RandomEngine::search returns a legal move; MainEngine::search returns a
\* legal move when the position is not game-over, and None when it is
\* game-over (insufficient material with moves left).
C2_SearchReturnsLegalMove ==
    (last.op = "search" /\ Len(legal_moves(game)) >= 1) =>
        IF engine_kind = "main" /\ is_game_over(game)
        THEN last.ret = "None"
        ELSE /\ last.ret = "Some"
             /\ last.move \in Range(legal_moves(game))

\* the minimax search returned one of several legal moves, and not the one
\* the generator lists first
C2_Witness ==
    /\ SearchedMain
    /\ Len(legal_moves(game)) >= 2
    /\ last.move \in Range(legal_moves(game))
    /\ last.move # legal_moves(game)[1]

\* C3 (as stated): on every terminal position (checkmate, stalemate,
\* insufficient material) and every position without legal moves, search of
\* either engine returns None, without a panic.
C3_Original ==
    (last.op = "search" /\ (is_game_over(game) \/ Len(legal_moves(game)) = 0)) =>
        /\ last.ret = "None"
        /\ last.panic = "none"

\* C3 (amended): on every position without legal moves (checkmate,
\* stalemate) search of either engine returns None; on a terminal position
\* with legal moves left (insufficient material) MainEngine::search returns
\* None while RandomEngine::search returns one of the legal moves; no panic
\* in either case.
C3_TerminalReturnsNone ==
    (last.op = "search" /\ (is_game_over(game) \/ Len(legal_moves(game)) = 0)) =>
        /\ last.panic = "none"
        /\ IF engine_kind = "random" /\ Len(legal_moves(game)) >= 1
           THEN last.ret = "Some" /\ last.move \in Range(legal_moves(game))
           ELSE last.ret = "None"

\* the minimax search was run on a terminal position that still has legal
\* moves and returned None
C3_Witness ==
    /\ engine_kind = "main"
    /\ last.op = "search"
    /\ is_insufficient_material(game)
    /\ Len(legal_moves(game)) >= 1
    /\ last.ret = "None"

\* C4: update_board with a move that is not legal in the current position
\* returns an error and leaves the Position as it was; with a legal move it
\* returns Ok and the Position becomes the successor position of that move.
C4_UpdateBoard ==
    [][last'.op = "update_board" =>
          IF last'.arg \in Range(legal_moves(game))
          THEN /\ last'.ret = "Ok"
               /\ game' = play_unchecked(game, last'.arg)
          ELSE /\ last'.ret = "Err"
               /\ game' = game]_vars

\* an illegal move was rejected on a position that has legal moves
C4_Witness ==
    /\ last.op = "update_board"
    /\ last.ret = "Err"
    /\ ~(last.arg \in Range(legal_moves(game)))
    /\ Len(legal_moves(game)) >= 1

\* v is the sum a + b of the integers a and b (computed on halves, so that
\* the comparison itself stays within 32 bits)
SumIs(a, b, v) ==
    /\ v % 2 = ((a % 2) + (b % 2)) % 2
    /\ v \div 2 = (a \div 2) + (b \div 2) + (((a % 2) + (b % 2)) \div 2)

\* a + b is representable as an i32
SumFits(a, b) == ~(b > 0 /\ a > I32Max - b) /\ ~(b < 0 /\ a < I32Min - b)

\* |x| <= |y| for i32 values x and y, as integers
MagLeq(x, y) ==
    IF x = I32Min THEN y = I32Min
    ELSE IF y = I32Min THEN TRUE
    ELSE (IF x < 0 THEN 0 - x ELSE x) <= (IF y < 0 THEN 0 - y ELSE y)

\* out is what the claim says lhs + rhs is
AddAsClaimed(lhs, rhs, out) ==
    IF lhs.tag = "Additive" /\ rhs.tag = "Additive"
    THEN out.tag = "Additive" /\ SumIs(lhs.v, rhs.v, out.v)
    ELSE IF lhs.tag = "Additive"
    THEN out = Absolute(rhs.v)
    ELSE IF rhs.tag = "Additive"
    THEN out = Absolute(lhs.v)
    ELSE /\ out.tag = "Absolute"
         /\ out.v \in {lhs.v, rhs.v}
         /\ MagLeq(out.v, lhs.v)
         /\ MagLeq(out.v, rhs.v)

\* C5 (as stated): for all i32 a and b, Additive(a)+Additive(b) = Additive(a+b),
\* Additive(a)+Absolute(b) = Absolute(b), Absolute(a)+Additive(b) = Absolute(a),
\* Absolute(a)+Absolute(b) = Absolute of the one with the smaller magnitude,
\* and Additive(0) is an identity on both sides.
C5_Original ==
    /\ AddAsClaimed(alg.lhs, alg.rhs, alg.out)
    /\ (alg.lhs = Additive(0) => alg.out = alg.rhs)
    /\ (alg.rhs = Additive(0) => alg.out = alg.lhs)

\* C5 (amended): the same equations, for Additive(a)+Additive(b) whenever
\* a + b is representable as an i32 and for Absolute(a)+Absolute(b) whenever
\* neither a nor b is i32::MIN; the two mixed cases and the identity
\* Additive(0) hold for all i32 values.
C5_AddAlgebra ==
    /\ ((alg.lhs.tag = "Additive" /\ alg.rhs.tag = "Additive")
            => (SumFits(alg.lhs.v, alg.rhs.v)
                    => alg.out = Additive(alg.lhs.v + alg.rhs.v)))
    /\ ((alg.lhs.tag = "Absolute" /\ alg.rhs.tag = "Absolute")
            => ((alg.lhs.v # I32Min /\ alg.rhs.v # I32Min)
                    => AddAsClaimed(alg.lhs, alg.rhs, alg.out)))
    /\ (alg.lhs.tag # alg.rhs.tag => AddAsClaimed(alg.lhs, alg.rhs, alg.out))
    /\ (alg.lhs = Additive(0) => alg.out = alg.rhs)
    /\ (alg.rhs = Additive(0) => alg.out = alg.lhs)

\* two absolute judgments of opposite sign were added, and the one kept is
\* the one of smaller magnitude although it is the larger number
C5_Witness ==
    /\ alg.lhs.tag = "Absolute"
    /\ alg.rhs.tag = "Absolute"
    /\ alg.lhs.v > 0
    /\ alg.rhs.v < 0 - alg.lhs.v
    /\ alg.rhs.v # I32Min
    /\ alg.out = alg.lhs

\* C6: evaluate_position of a position that is a stalemate returns exactly 0,
\* whatever the material on the board.
C6_StalemateIsZero ==
    \A l \in last.leaves : is_stalemate(l.pos) => l.eval = 0

\* a search evaluated a stalemate with a material imbalance
C6_Witness ==
    \E l \in last.leaves :
        /\ is_stalemate(l.pos)
        /\ util_material_difference(l.pos.h) # 0
        /\ l.eval = 0

\* root move m of position g mates at once
MateInOne(g, m) == is_checkmate(play_unchecked(g, m))

\* after the bot's move the position is q: whatever the opponent replies, the
\* game goes on and the bot has a move that mates
ForcedMateNext(q) ==
    /\ ~is_game_over(q)
    /\ \A r \in Range(legal_moves(q)) :
          /\ ~is_game_over(play_unchecked(q, r))
          /\ \E s \in Range(legal_moves(play_unchecked(q, r))) :
                MateInOne(play_unchecked(q, r), s)

\* root move m of position g starts a forced mate in two (a mate on the
\* bot's second move, three plies deep)
ForcedMateInTwo(g, m) == ForcedMateNext(play_unchecked(g, m))

\* C7: when the bot is to move, a root move that mates at once scores
\* strictly higher than a root move that starts a forced mate in two, and
\* when a move that mates at once exists the move returned mates at once.
C7_ShorterMatePreferred ==
    (SearchedMain /\ turn(game) = color) =>
        /\ \A k1, k2 \in 1 .. Len(last.evals) :
              (/\ MateInOne(game, legal_moves(game)[last.order[k1]])
               /\ ForcedMateInTwo(game, legal_moves(game)[last.order[k2]]))
                  => last.evals[k1] > last.evals[k2]
        /\ (\E m \in Range(legal_moves(game)) : MateInOne(game, m))
              => MateInOne(game, last.move)

\* the bot searched a position that offers both a mate in one and a forced
\* mate in two, and the longer line was scored first
C7_Witness ==
    /\ SearchedMain
    /\ turn(game) = color
    /\ \E k1, k2 \in 1 .. Len(last.evals) :
          /\ k2 < k1
          /\ MateInOne(game, legal_moves(game)[last.order[k1]])
          /\ ForcedMateInTwo(game, legal_moves(game)[last.order[k2]])
    /\ MateInOne(game, last.move)

\* contents a StatsSubsystem can have when a search starts
StatsSamples ==
    {StatsNew,
     [current_target_eval |-> MAX_EVAL - 1, pruning_cutoffs |-> <<3, 0, 1, 2>>],
     [current_target_eval |-> MIN_EVAL + 1, pruning_cutoffs |-> <<1>>]}

\* the search result r decides as the last search did
SameDecision(r) ==
    /\ r.evals = last.evals
    /\ r.best_eval = last.best_eval
    /\ r.move = last.move

\* C8: the diagnostics never influence the decision: the search that ran from
\* the stats the engine had (last.stats_in) and a search of the same position
\* started from any other StatsSubsystem contents compute the same score for
\* every root move, the same best score and the same move.
C8_StatsDoNotInfluence ==
    SearchedMain =>
        \A s \in StatsSamples : SameDecision(MainSearch(game, color, s, last.order))

\* a search that started from the diagnostics an earlier search left behind
\* (cutoffs counted, a target evaluation set) and scored several moves
C8_Witness ==
    /\ SearchedMain
    /\ last.stats_in.current_target_eval # 0
    /\ SeqSum(last.stats_in.pruning_cutoffs) > 0
    /\ last.stats_in # stats
    /\ Len(last.evals) >= 2

\* the score of the root move that legal_moves() lists i-th
ScoreOfListed(i) == last.evals[CHOOSE k \in 1 .. Len(last.order) : last.order[k] = i]

\* the place in legal_moves() of the move returned
ListedPlace(m) == CHOOSE i \in 1 .. Len(legal_moves(game)) : legal_moves(game)[i] = m

\* C9 (as stated): the move returned has the highest score and, among the
\* moves that share the highest score, is the first in the enumeration order
\* of the legal-move generator.
C9_Original ==
    SearchedMain =>
        /\ \A k \in 1 .. Len(last.evals) : last.evals[k] <= last.best_eval
        /\ ScoreOfListed(ListedPlace(last.move)) = last.best_eval
        /\ \A i \in 1 .. (ListedPlace(last.move) - 1) : ScoreOfListed(i) < last.best_eval

\* C9 (amended): the move returned has the highest score and, among the
\* moves that share the highest score, is the one the HashMap of root moves
\* yields last (the stable ascending sort followed by reverse puts it first);
\* the map's order is not the generator's enumeration order.
C9_HighestScoreLastVisited ==
    SearchedMain =>
        /\ \A k \in 1 .. Len(last.evals) : last.evals[k] <= last.best_eval
        /\ \E k \in 1 .. Len(last.evals) :
              /\ last.evals[k] = last.best_eval
              /\ last.move = legal_moves(game)[last.order[k]]
              /\ \A j \in (k + 1) .. Len(last.evals) : last.evals[j] < last.best_eval

\* several root moves share the highest score and the move returned is not
\* the first of them in the generator's order
C9_Witness ==
    /\ SearchedMain
    /\ \E i \in 1 .. (ListedPlace(last.move) - 1) : ScoreOfListed(i) = last.best_eval
    /\ ScoreOfListed(ListedPlace(last.move)) = last.best_eval

\* C10: the assertion of deep_move_evaluation never fires: no search reaches
\* a node with depth > 0 that is not game-over and has no legal move.
C10_AssertNeverFires ==
    (engine_kind = "main" /\ last.op = "search") => last.panic # "assert"

\* a search went down to the full depth and also met a position without
\* legal moves above the full depth, which the game-over test turned into a leaf
C10_Witness ==
    /\ SearchedMain
    /\ last.panic = "none"
    /\ \E l \in last.leaves : Len(legal_moves(l.pos)) = 0
    /\ \E l \in last.leaves :
          /\ l.pos.fullmoves = game.fullmoves + 2
          /\ Len(legal_moves(l.pos)) > 0

\* the number of half-moves played in the game up to position p, counted
\* from the first move of fullmove 1
PlyOf(p) == 2 * (p.fullmoves - 1) + (IF p.turn = "Black" THEN 1 ELSE 0)

\* C11: every search terminates within the fixed depth: each call of
\* deep_move_evaluation has a depth argument that is search_depth minus the
\* number of plies between the root and the position of the call (the
\* argument falls by one with each ply), the depth is never negative, so no
\* call chain is longer than search_depth = 4 plies, and the search returns.
C11_DepthBounded ==
    (engine_kind = "main" /\ last.op = "search") =>
        /\ last.ret \in {"Some", "None"}
        /\ \A c \in last.calls :
              /\ c.depth >= 0
              /\ c.depth = search_depth - (PlyOf(c.pos) - PlyOf(game))
              /\ PlyOf(c.pos) - PlyOf(game) <= search_depth

\* a search whose recursion went down to depth 0, four plies below the root,
\* and also stopped above that at a game-over position
C11_Witness ==
    /\ SearchedMain
    /\ \E c \in last.calls : c.depth = 0 /\ PlyOf(c.pos) - PlyOf(game) = 4
    /\ \E c \in last.calls : c.depth > 0 /\ is_game_over(c.pos)
    /\ \E c \in last.calls : c.depth = 2 /\ ~is_game_over(c.pos)

\* how many of the cutoffs of the last search happened in a frame of depth d
CutsAt(d) == Cardinality({k \in 1 .. Len(last.cuts) : last.cuts[k] = d})

\* C12: a search that evaluates a move leaves behind search_depth counters
\* that count the cutoffs of this search alone (the counters were reset to
\* zeros at its start): the counter at index depth - 1 holds the number of
\* cutoffs in frames of remaining depth `depth`, every such index lies inside
\* the array, no cutoff panics, and the counters sum to the number of cutoffs.
C12_CutoffCounters ==
    (engine_kind = "main" /\ last.op = "search" /\ last.ret # "None") =>
        /\ last.panic # "index"
        /\ Len(stats.pruning_cutoffs) = search_depth
        /\ \A k \in 1 .. Len(last.cuts) :
              last.cuts[k] - 1 >= 0 /\ last.cuts[k] - 1 < search_depth
        /\ \A d \in 1 .. search_depth : stats.pruning_cutoffs[d] = CutsAt(d)
        /\ SeqSum(stats.pruning_cutoffs) = Len(last.cuts)

\* a search with cutoffs at two different depths that started from counters
\* an earlier search had left non-zero
C12_Witness ==
    /\ SearchedMain
    /\ SeqSum(last.stats_in.pruning_cutoffs) > 0
    /\ last.stats_in.pruning_cutoffs # stats.pruning_cutoffs
    /\ \E k1, k2 \in 1 .. Len(last.cuts) : last.cuts[k1] # last.cuts[k2]

\* C13: after the GameFull event and after every Started GameState event the
\* task has applied the event (neither log_move nor update_board failed on
\* it) and the engine's position is the initial position with the whole move
\* list of that event played; and search is called only when is_my_turn holds.
C13_PositionFollowsMoveList ==
    /\ task.evt \in {"GameFull", "Started"} =>
          /\ task.status \notin {"panic_log", "err_update"}
          /\ game = Replay(task.initial, task.evt_moves)
    /\ last.op = "search" => is_my_turn(engine_kind, game, color)

\* the place of challenge c in the order in which challenges were queued
QueuedPlace(c) == CHOOSE k \in 1 .. Len(lobby.queued) : lobby.queued[k] = c

\* C14: the challenges accepted whose games have not finished are never more
\* than MAX_SIMULTANEOUS_GAMES; a challenge accepted on arrival found fewer
\* than MAX_SIMULTANEOUS_GAMES games ongoing; the challenges accepted from
\* the queue are accepted in the order they were queued; a canceled
\* challenge is not among the accepted.
C14_GamesCapped ==
    /\ Cardinality({k \in 1 .. Len(lobby.accepted) :
                       lobby.challenges[lobby.accepted[k].id] # "finished"})
           <= MAX_SIMULTANEOUS_GAMES
    /\ \A k \in 1 .. Len(lobby.accepted) :
          lobby.accepted[k].via = "arrival" =>
              lobby.accepted[k].ongoing < MAX_SIMULTANEOUS_GAMES
    /\ \A j, k \in 1 .. Len(lobby.accepted) :
          (j < k /\ lobby.accepted[j].via = "queue" /\ lobby.accepted[k].via = "queue")
              => QueuedPlace(lobby.accepted[j].id) < QueuedPlace(lobby.accepted[k].id)
    /\ \A k \in 1 .. Len(lobby.accepted) :
          lobby.challenges[lobby.accepted[k].id] # "canceled"

====
